---- MODULE Spec2Model ----
(***************************************************************************)
(* raft::RepeatedTimerTask (src/raft/repeated_timer_task.cpp): a periodic  *)
(* timer task that is started, stopped, reset and destroyed from arbitrary *)
(* threads while a fired timeout may still be executing the user action.   *)
(*                                                                         *)
(* Every thread of control (control-plane callers, the timer subsystem's   *)
(* thread, the worker bthreads started per fire) has a call stack of       *)
(* frames.  A critical section of _mutex that calls nothing outside is one *)
(* atomic step; wherever the code calls out (run(), on_destroy(), the      *)
(* static on_timedout) the thread gets a frame and the call is a state.    *)
(***************************************************************************)
EXTENDS Integers, Sequences, FiniteSets, TLC

\* ------------------------------------------------------------- bounds
NumCallers == 2         \* threads calling the public operations
NumWorkers == 2         \* bthreads that can exist at the same time
MaxTimers == 2          \* registrations the timer subsystem can hold at once
MaxTimeout == 1         \* periods are drawn from 0..MaxTimeout
MaxNow == 1             \* the clock runs over 0..MaxNow
MaxDepth == 2           \* frames one thread's stack can hold
MaxHook == 2            \* on_destroy() invocations counted (saturating)

Callers == {<<"caller", i>> : i \in 1..NumCallers}
Workers == {<<"bthread", i>> : i \in 1..NumWorkers}
TimerThread == <<"timer_thread", 1>>
Threads == Callers \cup Workers \cup {TimerThread}
NoThread == <<"none", 0>>

Timeouts == 0..MaxTimeout
TimerIds == 1..MaxTimers
DueTimes == 0..(MaxNow + MaxTimeout)

\* Frames of a thread's stack (head = innermost call):
\*   "otv"    inside static on_timedout(void*), before bthread_start_background
\*   "ot"     on_timedout() entered, before it takes _mutex
\*   "run"    inside the user action run(), _invoking set
\*   "hook_t" inside on_destroy() called from on_timedout()
\*   "hook_d" inside on_destroy() called from destroy()
Labels == {"DESTROYED", "STOPPED", "INVOKING", "SCHEDULING"}

Frames == {"otv", "ot", "run", "hook_t", "hook_d"}

VARIABLES
    timeout_ms,     \* _timeout_ms
    stopped,        \* _stopped
    running,        \* _running
    destroyed,      \* _destroyed
    invoking,       \* _invoking
    next_duetime,   \* _next_duetime
    timer,          \* _timer, the handle of the last successful registration
    mutex,          \* the thread holding _mutex, or NoThread
    armed,          \* registrations outstanding with the timer subsystem
    now,            \* the clock
    stack,          \* each thread's call stack
    init_ms,        \* {the argument of init()}, {} before init()
    hook_calls,     \* number of on_destroy() invocations so far
    check_failed,   \* some CHECK(...) has failed
    stop_pending,   \* a stop() failed to cancel and no start() was called since
    synth_start,    \* the thread whose start() failed to register, until run() begins
    pending_ms,     \* {argument of the last reset(new_ms) made while stopped}
    start_arm,      \* the schedule() made by start() after such a reset, if any
    reent,          \* re-entrant calls made by the current user action
    late_ops,       \* a public operation was called on the destroyed task
    cancel_destroy, \* destroy() cancelled the armed registration
    restart_pending,\* history: start() returned at line 79 leaving the re-arm to the callback
    reset_deferred, \* history: {new_ms of a reset(new_ms) whose cancel failed, not yet reconciled}
    os              \* {what the last step, if it was describe(), wrote to the stream}

vars == <<timeout_ms, stopped, running, destroyed, invoking, next_duetime, timer,
          mutex, armed, now, stack, init_ms, hook_calls, check_failed,
          stop_pending, synth_start, pending_ms, start_arm, reent, late_ops,
          cancel_destroy,
          restart_pending,
          reset_deferred,
          os>>

\* ------------------------------------------------------------- helpers
Min(S) == CHOOSE x \in S : \A y \in S : x <= y

Top(t) == IF stack[t] = <<>> THEN "idle" ELSE Head(stack[t])

HasFrame(t, f) == \E i \in 1..Len(stack[t]) : stack[t][i] = f

InRun(t) == Top(t) = "run"

\* A delivered callback (real or synthetic fire) that has not finished reconciling.
InFlight == \E t \in Threads : \E f \in {"otv", "ot", "run", "hook_t"} : HasFrame(t, f)

InHook == \E t \in Threads : HasFrame(t, "hook_t") \/ HasFrame(t, "hook_d")

NumInRun == Cardinality({<<t, i>> \in Threads \X (1..MaxDepth + 1) :
                            i <= Len(stack[t]) /\ stack[t][i] = "run"})

\* A public operation can be entered by an idle caller thread, or re-entrantly by
\* the thread that is executing the user action; it then needs _mutex.
CanCall(t) ==
    /\ init_ms # {}
    /\ \/ t \in Callers /\ stack[t] = <<>>
       \/ InRun(t)
    /\ mutex = NoThread

Reentered(t) == IF InRun(t) THEN "called" ELSE reent

LateOp == late_ops \/ destroyed

CountHook == IF hook_calls < MaxHook THEN hook_calls + 1 ELSE hook_calls

\* ------------------------------------------------------------- collaborators
\* adjust_timeout_ms(): the embedder's hook; the default leaves the period as it is.
adjust_timeout_ms(ms) == ms

\* base::milliseconds_from_now()
milliseconds_from_now(ms) == now + ms

\* raft_timer_del(h) returns 0 exactly when h is still armed and has not fired.
raft_timer_del_ok(h) == \E r \in armed : r.id = h

raft_timer_del_armed(h) == {r \in armed : r.id # h}

FreeIds(a) == TimerIds \ {r.id : r \in a}

\* schedule(lck), entered with _mutex held by t.  ms is _timeout_ms, a the
\* registrations outstanding at the call, base the stack t is left with when
\* schedule returns, by_start the ghost argument of start_arm.  fallback: a failed
\* raft_timer_add is followed by on_timedout(this).
schedule_body(t, ms, a, base, by_start, fallback) ==
    LET due == milliseconds_from_now(adjust_timeout_ms(ms)) IN
    /\ next_duetime' = due
    /\ start_arm' = {[ms |-> m, delay |-> due - now] : m \in by_start}
    /\ \/ /\ FreeIds(a) # {}                     \* raft_timer_add(...) == 0
          /\ timer' = Min(FreeIds(a))
          /\ armed' = a \cup {[id |-> Min(FreeIds(a)), due |-> due]}
          /\ stack' = [stack EXCEPT ![t] = base]
       \/ /\ Len(base) < MaxDepth                \* raft_timer_add(...) != 0
          /\ timer' = timer
          /\ armed' = a
          /\ stack' = [stack EXCEPT ![t] = IF fallback THEN <<"otv">> \o base
                                           ELSE base]

schedule_drops_fire(t, ms, a, base, by_start) ==
    schedule_body(t, ms, a, base, by_start, FALSE)

schedule(t, ms, a, base, by_start) ==
    schedule_body(t, ms, a, base, by_start, TRUE)

\* ------------------------------------------------------------- state
Init ==
    /\ timeout_ms = 0
    /\ stopped = TRUE
    /\ running = FALSE
    /\ destroyed = FALSE
    /\ invoking = FALSE
    /\ next_duetime \in DueTimes        \* not initialised by the constructor
    /\ timer \in {0} \cup TimerIds      \* not initialised by the constructor
    /\ mutex = NoThread
    /\ armed = {}
    /\ now = 0
    /\ stack = [t \in Threads |-> <<>>]
    /\ init_ms = {}
    /\ hook_calls = 0
    /\ check_failed = FALSE
    /\ stop_pending = FALSE
    /\ synth_start = NoThread
    /\ pending_ms = {}
    /\ start_arm = {}
    /\ reent = "none"
    /\ late_ops = FALSE
    /\ cancel_destroy = FALSE
    /\ restart_pending = FALSE
    /\ reset_deferred = {}
    /\ os = {}

init(ms) ==
    /\ init_ms = {}
    /\ timeout_ms' = ms
    /\ destroyed' = FALSE
    /\ stopped' = TRUE
    /\ running' = FALSE
    /\ timer' = 0
    /\ init_ms' = {ms}
    /\ os' = {}
    /\ UNCHANGED <<invoking, next_duetime, mutex, armed, now, stack, hook_calls,
                   check_failed, stop_pending, synth_start, pending_ms, start_arm,
                   reent, late_ops,
                   cancel_destroy,
                   restart_pending,
                   reset_deferred>>

\* ------------------------------------------------------------- public operations
\* stop().  flag_first: _stopped is set before the cancel is attempted.
stop_body(t, flag_first) ==
    /\ CanCall(t)
    /\ IF stopped
         THEN UNCHANGED <<stopped, running, armed, check_failed, stop_pending>>
         ELSE /\ stopped' = (flag_first \/ raft_timer_del_ok(timer))
              /\ check_failed' = (check_failed \/ ~running)
              /\ IF raft_timer_del_ok(timer)
                   THEN /\ running' = FALSE
                        /\ armed' = raft_timer_del_armed(timer)
                        /\ UNCHANGED stop_pending
                   ELSE /\ stop_pending' = TRUE
                        /\ UNCHANGED <<running, armed>>
    /\ reent' = Reentered(t)
    /\ late_ops' = LateOp
    /\ restart_pending' = FALSE
    /\ reset_deferred' = {}
    /\ os' = {}
    /\ UNCHANGED <<timeout_ms, destroyed, invoking, next_duetime, timer, mutex, now,
                   stack, init_ms, hook_calls, synth_start, pending_ms, start_arm,
                   cancel_destroy>>

stop_flags_on_cancel(t) == stop_body(t, FALSE)

stop_clears_running(t) ==
    /\ CanCall(t)
    /\ IF stopped
         THEN UNCHANGED <<stopped, running, armed, check_failed, stop_pending>>
         ELSE /\ stopped' = TRUE
              /\ check_failed' = (check_failed \/ ~running)
              /\ running' = FALSE
              /\ armed' = raft_timer_del_armed(timer)
              /\ stop_pending' = (stop_pending \/ ~raft_timer_del_ok(timer))
    /\ reent' = Reentered(t)
    /\ late_ops' = LateOp
    /\ restart_pending' = FALSE
    /\ reset_deferred' = {}
    /\ os' = {}
    /\ UNCHANGED <<timeout_ms, destroyed, invoking, next_duetime, timer, mutex, now,
                   stack, init_ms, hook_calls, synth_start, pending_ms, start_arm,
                   cancel_destroy>>

stop(t) == stop_body(t, TRUE)

\* start().  if_destroyed, if_running: the early returns of lines 75 and 79.
start_body(t, if_destroyed, if_running, clear_first) ==
    /\ CanCall(t)
    /\ stop_pending' = FALSE
    /\ IF (if_destroyed /\ destroyed) \/ ~stopped
         THEN UNCHANGED <<stopped, running, next_duetime, timer, armed, stack,
                          synth_start, pending_ms, start_arm>>
         ELSE /\ stopped' = (~clear_first /\ if_running /\ running)
              /\ pending_ms' = {}
              /\ IF if_running /\ running
                   THEN UNCHANGED <<running, next_duetime, timer, armed, stack,
                                    synth_start, start_arm>>
                   ELSE /\ running' = TRUE
                        /\ schedule(t, timeout_ms, armed, stack[t], pending_ms)
                        /\ synth_start' = IF armed' = armed THEN t ELSE synth_start
    /\ late_ops' = LateOp
    /\ restart_pending' = IF (if_destroyed /\ destroyed) \/ ~stopped
                          THEN restart_pending
                          ELSE (if_running /\ running)
    /\ os' = {}
    /\ UNCHANGED <<timeout_ms, destroyed, invoking, mutex, now, init_ms, hook_calls,
                   check_failed, reent,
                   cancel_destroy,
                   reset_deferred>>

start_rearms_running(t) == start_body(t, TRUE, FALSE, TRUE)

start_ignores_destroyed(t) == start_body(t, FALSE, TRUE, TRUE)

start_returns_stopped(t) == start_body(t, TRUE, TRUE, FALSE)

start(t) == start_body(t, TRUE, TRUE, TRUE)

\* reset().  on_cancel: schedule only when raft_timer_del returned 0.
reset_body(t, on_cancel) ==
    /\ CanCall(t)
    /\ IF stopped
         THEN UNCHANGED <<next_duetime, timer, armed, stack, check_failed, start_arm>>
         ELSE /\ check_failed' = (check_failed \/ ~running)
              /\ IF raft_timer_del_ok(timer) \/ ~on_cancel
                   THEN schedule(t, timeout_ms, raft_timer_del_armed(timer),
                                 stack[t], {})
                   ELSE UNCHANGED <<next_duetime, timer, armed, stack, start_arm>>
    /\ reent' = Reentered(t)
    /\ late_ops' = LateOp
    /\ os' = {}
    /\ UNCHANGED <<timeout_ms, stopped, running, destroyed, invoking, mutex, now,
                   init_ms, hook_calls, stop_pending, synth_start, pending_ms,
                   cancel_destroy,
                   restart_pending,
                   reset_deferred>>

reset_always_schedules(t) == reset_body(t, FALSE)

reset(t) == reset_body(t, TRUE)

\* reset(int timeout_ms).  store_first: _timeout_ms is written before the
\* early return on _stopped.
reset_timeout_body(t, ms, store_first, store_deferred) ==
    /\ CanCall(t)
    /\ timeout_ms' = IF (store_first \/ ~stopped)
                          /\ (store_deferred \/ stopped \/ raft_timer_del_ok(timer))
                      THEN ms ELSE timeout_ms
    /\ pending_ms' = IF stopped THEN {ms} ELSE pending_ms
    /\ IF stopped
         THEN UNCHANGED <<next_duetime, timer, armed, stack, check_failed, start_arm>>
         ELSE /\ check_failed' = (check_failed \/ ~running)
              /\ IF raft_timer_del_ok(timer)
                   THEN schedule(t, ms, raft_timer_del_armed(timer), stack[t], {})
                   ELSE UNCHANGED <<next_duetime, timer, armed, stack, start_arm>>
    /\ reent' = Reentered(t)
    /\ late_ops' = LateOp
    /\ reset_deferred' = IF ~stopped /\ ~raft_timer_del_ok(timer) THEN {ms} ELSE {}
    /\ os' = {}
    /\ UNCHANGED <<stopped, running, destroyed, invoking, mutex, now, init_ms,
                   hook_calls, stop_pending, synth_start,
                   cancel_destroy,
                   restart_pending>>

reset_timeout_skips_stopped(t, ms) == reset_timeout_body(t, ms, FALSE, TRUE)

reset_timeout_skips_deferred(t, ms) == reset_timeout_body(t, ms, TRUE, FALSE)

reset_timeout(t, ms) == reset_timeout_body(t, ms, TRUE, TRUE)

\* destroy().  once: the early return on _destroyed.
destroy_body(t, once) ==
    /\ CanCall(t)
    /\ IF once /\ destroyed
         THEN UNCHANGED <<destroyed, stopped, running, armed, stack, hook_calls,
                          check_failed>>
         ELSE /\ destroyed' = TRUE
              /\ IF ~running
                   THEN /\ check_failed' = (check_failed \/ ~stopped)
                        /\ Len(stack[t]) < MaxDepth
                        /\ stack' = [stack EXCEPT ![t] = <<"hook_d">> \o @]
                        /\ hook_calls' = CountHook
                        /\ UNCHANGED <<stopped, running, armed>>
                   ELSE IF stopped
                   THEN UNCHANGED <<stopped, running, armed, stack, hook_calls,
                                    check_failed>>
                   ELSE /\ stopped' = TRUE
                        /\ IF raft_timer_del_ok(timer)
                             THEN /\ running' = FALSE
                                  /\ armed' = raft_timer_del_armed(timer)
                                  /\ Len(stack[t]) < MaxDepth
                                  /\ stack' = [stack EXCEPT ![t] = <<"hook_d">> \o @]
                                  /\ hook_calls' = CountHook
                                  /\ UNCHANGED check_failed
                             ELSE /\ check_failed' = (check_failed \/ ~running)
                                  /\ UNCHANGED <<running, armed, stack, hook_calls>>
    /\ reent' = Reentered(t)
    /\ late_ops' = LateOp
    /\ cancel_destroy' = (cancel_destroy \/ (~destroyed /\ running /\ ~stopped
                                           /\ raft_timer_del_ok(timer)))
    /\ restart_pending' = FALSE
    /\ reset_deferred' = {}
    /\ os' = {}
    /\ UNCHANGED <<timeout_ms, invoking, next_duetime, timer, mutex, now, init_ms,
                   stop_pending, synth_start, pending_ms, start_arm>>

destroy_again(t) == destroy_body(t, FALSE)

destroy(t) == destroy_body(t, TRUE)

\* on_destroy() called from destroy() returns, and destroy() with it.
destroy_return(t) ==
    /\ Top(t) = "hook_d"
    /\ stack' = [stack EXCEPT ![t] = Tail(@)]
    /\ os' = {}
    /\ UNCHANGED <<timeout_ms, stopped, running, destroyed, invoking, next_duetime,
                   timer, mutex, armed, now, init_ms, hook_calls, check_failed,
                   stop_pending, synth_start, pending_ms, start_arm, reent, late_ops,
                   cancel_destroy,
                   restart_pending,
                   reset_deferred>>

\* ------------------------------------------------------------- the fire callback
\* The timer subsystem delivers an armed registration that is due.
timer_fire ==
    /\ stack[TimerThread] = <<>>
    /\ \E r \in armed :
          /\ r.due <= now
          /\ armed' = armed \ {r}
    /\ stack' = [stack EXCEPT ![TimerThread] = <<"otv">>]
    /\ os' = {}
    /\ UNCHANGED <<timeout_ms, stopped, running, destroyed, invoking, next_duetime,
                   timer, mutex, now, init_ms, hook_calls, check_failed,
                   stop_pending, synth_start, pending_ms, start_arm, reent, late_ops,
                   cancel_destroy,
                   restart_pending,
                   reset_deferred>>

FreeWorkers == {w \in Workers : stack[w] = <<>>}

NewWorker == CHOOSE w \in FreeWorkers : \A v \in FreeWorkers : w[2] <= v[2]

\* static on_timedout(void* arg): hand the callback to a new bthread, or run it
\* on this thread when the bthread cannot be started.
\* fallback: run_on_timedout_in_new_thread(arg) is called when the bthread fails.
on_timedout_arg_body(t, fallback) ==
    /\ Top(t) = "otv"
    /\ \/ /\ FreeWorkers # {}
          /\ stack' = [stack EXCEPT ![t] = Tail(@), ![NewWorker] = <<"ot">>]
       \/ stack' = [stack EXCEPT ![t] = IF fallback THEN <<"ot">> \o Tail(@)
                                        ELSE Tail(@)]
    /\ os' = {}
    /\ UNCHANGED <<timeout_ms, stopped, running, destroyed, invoking, next_duetime,
                   timer, mutex, armed, now, init_ms, hook_calls, check_failed,
                   stop_pending, synth_start, pending_ms, start_arm, reent, late_ops,
                   cancel_destroy,
                   restart_pending,
                   reset_deferred>>

on_timedout_arg_drops_fire(t) == on_timedout_arg_body(t, FALSE)

on_timedout_arg(t) == on_timedout_arg_body(t, TRUE)

\* on_timedout(), up to the call of run(): the lock is taken, _invoking set, the
\* lock released (unlock) and the user action entered.
on_timedout_invoke_body(t, unlock) ==
    /\ Top(t) = "ot"
    /\ mutex = NoThread
    /\ invoking' = TRUE
    /\ mutex' = IF unlock THEN NoThread ELSE t
    /\ stack' = [stack EXCEPT ![t] = <<"run">> \o Tail(@)]
    /\ synth_start' = NoThread
    /\ reent' = "none"
    /\ os' = {}
    /\ UNCHANGED <<timeout_ms, stopped, running, destroyed, next_duetime, timer,
                   armed, now, init_ms, hook_calls, check_failed, stop_pending,
                   pending_ms, start_arm, late_ops,
                   cancel_destroy,
                   restart_pending,
                   reset_deferred>>

on_timedout_invoke_locked(t) == on_timedout_invoke_body(t, FALSE)

on_timedout_invoke(t) == on_timedout_invoke_body(t, TRUE)

\* on_timedout(), from the return of run(): the reconciliation step.
on_timedout_reconcile(t) ==
    /\ Top(t) = "run"
    /\ mutex = NoThread
    /\ invoking' = FALSE
    /\ check_failed' = (check_failed \/ ~running)
    /\ reent' = IF reent = "called" THEN "reconciled" ELSE reent
    /\ IF stopped
         THEN IF destroyed
                THEN /\ mutex' = t               \* on_destroy() inside the lock
                     /\ stack' = [stack EXCEPT ![t] = <<"hook_t">> \o Tail(@)]
                     /\ hook_calls' = CountHook
                     /\ UNCHANGED <<running, next_duetime, timer, armed, start_arm>>
                ELSE /\ running' = FALSE
                     /\ stack' = [stack EXCEPT ![t] = Tail(@)]
                     /\ UNCHANGED <<mutex, hook_calls, next_duetime, timer, armed,
                                    start_arm>>
         ELSE /\ schedule(t, timeout_ms, armed, Tail(stack[t]), {})
              /\ UNCHANGED <<mutex, hook_calls, running>>
    /\ restart_pending' = FALSE
    /\ reset_deferred' = {}
    /\ os' = {}
    /\ UNCHANGED <<timeout_ms, stopped, destroyed, now, init_ms, stop_pending,
                   synth_start, pending_ms, late_ops,
                   cancel_destroy>>

\* on_timedout(), after on_destroy() has returned: _running = false; return.
on_timedout_finish(t) ==
    /\ Top(t) = "hook_t"
    /\ running' = FALSE
    /\ mutex' = NoThread
    /\ stack' = [stack EXCEPT ![t] = Tail(@)]
    /\ os' = {}
    /\ UNCHANGED <<timeout_ms, stopped, destroyed, invoking, next_duetime, timer,
                   armed, now, init_ms, hook_calls, check_failed, stop_pending,
                   synth_start, pending_ms, start_arm, reent, late_ops,
                   cancel_destroy,
                   restart_pending,
                   reset_deferred>>

\* Time passes.
\* describe(os, use_html): the fields are copied under _mutex, the text is written
\* after the unlock; gettimeofday_ms() is read while writing, at a clock n >= now.
\* every: each of the three if statements is executed.
describe_labels(d, s, r, i) ==
    (IF d THEN <<"DESTROYED">> ELSE <<>>)
        \o (IF s THEN <<"STOPPED">> ELSE <<>>)
        \o (IF r THEN (IF i THEN <<"INVOKING">> ELSE <<"SCHEDULING">>) ELSE <<>>)

describe_body(t, every) ==
    /\ \/ t \in Callers /\ stack[t] = <<>>
       \/ InRun(t)
    /\ mutex = NoThread
    /\ \E n \in now..MaxNow :
          os' = {[timeout |-> timeout_ms,
                  labels  |-> LET l == describe_labels(destroyed, stopped, running,
                                                       invoking)
                              IN  IF every \/ l = <<>> THEN l ELSE <<Head(l)>>,
                  in_ms   |-> IF running /\ ~invoking THEN {next_duetime - n} ELSE {}]}
    /\ UNCHANGED <<timeout_ms, stopped, running, destroyed, invoking, next_duetime,
                   timer, mutex, armed, now, stack, init_ms, hook_calls, check_failed,
                   stop_pending, synth_start, pending_ms, start_arm, reent, late_ops,
                   cancel_destroy, restart_pending, reset_deferred>>

describe_first_label(t) == describe_body(t, FALSE)

describe(t) == describe_body(t, TRUE)

tick ==
    /\ now < MaxNow
    /\ now' = now + 1
    /\ os' = {}
    /\ UNCHANGED <<timeout_ms, stopped, running, destroyed, invoking, next_duetime,
                   timer, mutex, armed, stack, init_ms, hook_calls, check_failed,
                   stop_pending, synth_start, pending_ms, start_arm, reent, late_ops,
                   cancel_destroy,
                   restart_pending,
                   reset_deferred>>

PublicOp ==
    \E t \in Threads :
        \/ start(t)
        \/ stop(t)
        \/ reset(t)
        \/ destroy(t)
        \/ \E ms \in Timeouts : reset_timeout(t, ms)

Next ==
    \/ \E ms \in Timeouts : init(ms)
    \/ \E t \in Threads : start(t)
    \/ \E t \in Threads : stop(t)
    \/ \E t \in Threads : reset(t)
    \/ \E t \in Threads, ms \in Timeouts : reset_timeout(t, ms)
    \/ \E t \in Threads : destroy(t)
    \/ \E t \in Threads : destroy_return(t)
    \/ timer_fire
    \/ \E t \in Threads : on_timedout_arg(t)
    \/ \E t \in Threads : on_timedout_invoke(t)
    \/ \E t \in Threads : on_timedout_reconcile(t)
    \/ \E t \in Threads : on_timedout_finish(t)
    \/ tick

Spec == Init /\ [][Next]_vars

\* Scheduling: a thread that is inside the class keeps executing, so each step of
\* the callback and the return of the hook eventually happens; run() terminates.
\* Nothing makes raft_timer_add or bthread_start_background succeed, and nothing
\* makes a caller call.
Fairness ==
    \A t \in Threads :
        /\ WF_vars(on_timedout_arg(t))
        /\ WF_vars(on_timedout_invoke(t))
        /\ WF_vars(on_timedout_reconcile(t))
        /\ WF_vars(on_timedout_finish(t))
        /\ WF_vars(destroy_return(t))

FairSpec == Spec /\ Fairness

\* The task together with its read-only diagnostics: describe() changes no field,
\* so it is left out of Spec and observed here.
DescribeNext ==
    \/ Next
    \/ \E t \in Threads : describe(t)

DescribeSpec == Init /\ [][DescribeNext]_vars

TypeOK ==
    /\ timeout_ms \in Timeouts
    /\ stopped \in BOOLEAN /\ running \in BOOLEAN
    /\ destroyed \in BOOLEAN /\ invoking \in BOOLEAN
    /\ next_duetime \in DueTimes
    /\ timer \in {0} \cup TimerIds
    /\ mutex \in Threads \cup {NoThread}
    /\ armed \subseteq [id : TimerIds, due : DueTimes]
    /\ now \in 0..MaxNow
    /\ \A t \in Threads : Len(stack[t]) <= MaxDepth + 1
                          /\ \A i \in 1..Len(stack[t]) : stack[t][i] \in Frames
    /\ init_ms \subseteq Timeouts
    /\ hook_calls \in 0..MaxHook
    /\ check_failed \in BOOLEAN
    /\ stop_pending \in BOOLEAN
    /\ synth_start \in Threads \cup {NoThread}
    /\ pending_ms \subseteq Timeouts
    /\ reent \in {"none", "called", "reconciled"}
    /\ late_ops \in BOOLEAN

\* ------------------------------------------------------------- claims
\* The fields of the task the public operations work on.
    /\ cancel_destroy \in BOOLEAN
    /\ restart_pending \in BOOLEAN
    /\ reset_deferred \subseteq Timeouts
    /\ os \in SUBSET [timeout : Timeouts, labels : Seq(Labels), in_ms : SUBSET Int]

task_state == <<stopped, running, destroyed, invoking, timeout_ms, next_duetime,
                timer, armed>>

\* C1: in every reachable state at most one timer registration of the task is
\* outstanding with the timer subsystem.
NoDoubleArm == Cardinality(armed) <= 1

\* C1 witness: a registration armed by the reconciliation of a callback whose
\* user action called back into the task.
NoDoubleArmWitness ==
    /\ Cardinality(armed) = 1
    /\ running /\ ~stopped
    /\ reent = "reconciled"

\* C2: on_destroy() is invoked at most once, and once the task is destroyed and no
\* callback is left in flight it has been invoked exactly once and _running is
\* false.
DestroyExactlyOnce ==
    /\ hook_calls <= 1
    /\ (destroyed /\ ~InFlight) => (hook_calls = 1 /\ ~running)

\* C2 witness: the hook has run once, deferred to the reconciliation of a callback
\* whose user action re-entered the task, and nothing is left in flight.
DestroyExactlyOnceWitness ==
    /\ destroyed /\ ~running
    /\ hook_calls = 1
    /\ ~InFlight /\ ~InHook
    /\ reent = "reconciled"

\* C3: while on_destroy() executes the task is fully stopped: _running is false,
\* no registration is outstanding and no fired callback has work left on the task.
HookAfterFullStop ==
    InHook => /\ ~running
              /\ armed = {}
              /\ ~\E t \in Threads : \E f \in {"otv", "ot", "run"} : HasFrame(t, f)

\* C4: on_destroy() is never executed while _mutex is held.
HookOutsideLock == InHook => mutex = NoThread

\* C5: while the user action executes, _mutex is not held, so the operations it
\* calls on the same task can take it.
RunOutsideLock == \A t \in Threads : InRun(t) => mutex = NoThread

\* C5 witness: the user action called stop/reset/destroy on its own task, the call
\* returned and the enclosing callback has finished its reconciliation.
RunOutsideLockWitness == reent = "reconciled" /\ ~InFlight

\* C6: after a stop() whose cancel failed, and as long as start() is not called,
\* the task stays stopped and nothing is armed; once the in-flight callback has
\* reconciled, _running is false and no callback is delivered again.
DeferredStop ==
    /\ [](stop_pending => /\ stopped
                          /\ armed = {}
                          /\ (~InFlight => ~running))
    /\ [][(stop_pending /\ ~InFlight /\ stop_pending') =>
              (~InFlight' /\ armed' = {} /\ NumInRun' = 0)]_vars

\* C6 witness: the callback that was in flight at the stop() has reconciled.
DeferredStopWitness ==
    /\ stop_pending
    /\ ~InFlight
    /\ stopped /\ ~running /\ ~destroyed
    /\ armed = {}

\* C7: at most one execution of run() is in progress at any instant.
SerializedRun == NumInRun <= 1

\* C7 witness: run() executing on a caller's thread, inside start(), after both the
\* registration and the bthread dispatch failed.
SerializedRunWitness == \E t \in Callers : InRun(t) /\ NumInRun = 1

\* C8 as claimed: on a destroyed task every public operation leaves the whole task
\* state, _timeout_ms included, unchanged.
DestroyedFreezesAll ==
    [][destroyed => (destroyed' /\ (PublicOp => UNCHANGED task_state))]_vars

\* C8 amended: _destroyed never becomes false again, and on a destroyed task every
\* public operation leaves _stopped, _running, _destroyed, _invoking, the due-time
\* and the registration unchanged; only reset(new_ms) still writes _timeout_ms.
DestroyedFreezes ==
    [][destroyed =>
          /\ destroyed'
          /\ PublicOp => UNCHANGED <<stopped, running, destroyed, invoking,
                                     next_duetime, timer, armed>>
          /\ timeout_ms' # timeout_ms =>
                \E t \in Threads : reset_timeout(t, timeout_ms')]_vars

\* C8 witness: operations were called on the destroyed task, after its hook ran.
DestroyedFreezesWitness ==
    /\ destroyed /\ late_ops
    /\ hook_calls = 1 /\ ~InHook /\ ~InFlight
    /\ stopped /\ ~running /\ armed = {}

\* C9 as claimed: when the registration fails in start(), run() is invoked before
\* start() returns.
SyntheticFireSynchronous ==
    synth_start # NoThread => stack[synth_start] # <<>>

\* C9 amended: when the registration fails in start(), the fire is not lost: it is
\* in the callback path, either still on the thread inside start() or handed to a
\* worker bthread, which will invoke run().
SyntheticFireDelivered ==
    synth_start # NoThread =>
        /\ running /\ armed = {}
        /\ \/ Top(synth_start) \in {"otv", "ot"}
           \/ /\ stack[synth_start] = <<>>
              /\ \E w \in Workers : Top(w) = "ot"

\* C9 witness: start() has returned and its synthetic fire waits on a bthread.
SyntheticFireDeliveredWitness ==
    /\ synth_start \in Callers
    /\ stack[synth_start] = <<>>
    /\ \E w \in Workers : Top(w) = "ot"

\* C10: the schedule() made by start() after a reset(new_ms) on the stopped task
\* uses new_ms: its due-time is now + adjust_timeout_ms(new_ms).
PeriodUpdateTakesEffect ==
    \A a \in start_arm :
        /\ a.delay = adjust_timeout_ms(a.ms)
        /\ \A r \in armed : r.id = timer => r.due = next_duetime

\* C10 witness: the first registration is armed with a period other than init()'s.
PeriodUpdateTakesEffectWitness ==
    \E a \in start_arm :
        /\ a.ms \notin init_ms
        /\ \E r \in armed : r.id = timer
\* C11: every delivery of the callback is executed exactly once: the step that
\* leaves the static on_timedout(void*) puts exactly one on_timedout() call either
\* on a new bthread or, when the bthread cannot be started, on the delivering
\* thread itself; and each such call runs the user action once, which is the only
\* way a user action starts.
NoFireDropped ==
    /\ [][\A t \in Threads : Top(t) = "otv" /\ stack[t]' # stack[t] =>
              \/ /\ stack[t]' = <<"ot">> \o Tail(stack[t])
                 /\ \A u \in Threads \ {t} : stack[u]' = stack[u]
              \/ /\ stack[t]' = Tail(stack[t])
                 /\ \E w \in Workers :
                       /\ stack[w] = <<>> /\ stack[w]' = <<"ot">>
                       /\ \A u \in Threads \ {t, w} : stack[u]' = stack[u]]_vars
    /\ [][\A t \in Threads : Top(t)' = "ot" /\ stack[t]' # stack[t] =>
              \/ Top(t) = "otv" /\ Len(stack[t]') = Len(stack[t])
              \/ /\ stack[t] = <<>>
                 /\ \E u \in Threads : Top(u) = "otv" /\ stack[u]' = Tail(stack[u])]_vars
    /\ [][\A t \in Threads : Top(t) = "ot" /\ stack[t]' # stack[t] =>
              stack[t]' = <<"run">> \o Tail(stack[t])]_vars
    /\ [][\A t \in Threads :
              Top(t)' = "run" /\ Len(stack[t]') >= Len(stack[t])
                              /\ stack[t]' # stack[t] =>
                  Top(t) = "ot" /\ stack[t]' = <<"run">> \o Tail(stack[t])]_vars

NoFireDroppedWitness == InRun(TimerThread) /\ invoking /\ running
\* C12: once destroy() has cancelled the armed registration, on_destroy() has been
\* invoked (inside that destroy() call), _destroyed is true and _running false,
\* and from then on nothing is armed, no callback is delivered and the user
\* action does not execute.
DestroyCancels ==
    cancel_destroy =>
        /\ destroyed /\ ~running
        /\ hook_calls = 1
        /\ armed = {}
        /\ ~InFlight
        /\ NumInRun = 0

\* C12 witness: destroy() has cancelled the registration and its thread is still
\* inside the on_destroy() it called.
DestroyCancelsWitness ==
    /\ cancel_destroy
    /\ \E t \in Callers : Top(t) = "hook_d"
    /\ destroyed /\ ~running /\ hook_calls = 1
\* C13: whenever _mutex is free, _running is true exactly when a registration is
\* outstanding or a delivered callback has not finished its reconciliation.
RunningIffPending ==
    mutex = NoThread => (running <=> (armed # {} \/ InFlight))

\* C13 witness: _running kept true by an unreconciled callback alone, after a stop()
\* that could not cancel.
RunningIffPendingWitness ==
    /\ mutex = NoThread
    /\ running /\ stopped /\ stop_pending
    /\ armed = {} /\ InFlight
\* C14 as stated: a start() that finds _running still true clears _stopped and arms
\* nothing, and the reconciliation of the pending callback then leaves exactly one
\* registration outstanding with _stopped false and _running true.
RestartRearmsExactlyOne ==
    /\ [](restart_pending => ~stopped /\ running /\ armed = {})
    /\ [][~restart_pending /\ restart_pending' =>
              /\ ~stopped' /\ armed' = armed /\ stack' = stack]_vars
    /\ [][restart_pending /\ invoking /\ ~invoking' =>
              /\ Cardinality(armed') = 1
              /\ ~stopped' /\ running']_vars

\* C14 amended: the reconciliation re-arms by schedule(), which leaves exactly one
\* registration outstanding when raft_timer_add succeeds and otherwise none, with
\* the fire delivered at once to on_timedout(void*); _stopped is false and _running
\* true either way.
RestartRearms ==
    /\ [](restart_pending => ~stopped /\ running /\ armed = {})
    /\ [][~restart_pending /\ restart_pending' =>
              /\ ~stopped' /\ armed' = armed /\ stack' = stack]_vars
    /\ [][restart_pending /\ invoking /\ ~invoking' =>
              /\ \/ /\ Cardinality(armed') = 1
                    /\ \A t \in Threads : Top(t)' = "otv" => stack[t]' = stack[t]
                 \/ /\ armed' = {}
                    /\ \E t \in Threads : /\ Top(t) = "run"
                                          /\ stack[t]' = <<"otv">> \o Tail(stack[t])
              /\ ~stopped' /\ running']_vars

\* C14 witness: the callback is inside run() after a stop() that could not cancel
\* and a start() that returned without arming.
RestartRearmsWitness ==
    /\ restart_pending
    /\ invoking /\ NumInRun = 1
    /\ ~stopped /\ running /\ armed = {}
\* C15: a reset(new_ms) on a task that is not stopped, whose raft_timer_del fails,
\* stores new_ms and arms nothing; while it is pending the fire is in flight and
\* _timeout_ms is new_ms; and every reconciliation acts on the _stopped, _destroyed
\* and _timeout_ms it finds: stopped, it arms nothing; not stopped, it schedules
\* the next fire adjust_timeout_ms(_timeout_ms) from now, which after a deferred
\* reset is new_ms.
DeferredReset ==
    /\ [](reset_deferred # {} =>
              /\ reset_deferred = {timeout_ms}
              /\ ~stopped /\ running /\ armed = {} /\ InFlight)
    /\ [][reset_deferred' # {} /\ reset_deferred' # reset_deferred =>
              /\ armed' = armed /\ stack' = stack
              /\ reset_deferred' = {timeout_ms'}]_vars
    /\ [][invoking /\ ~invoking' =>
              IF stopped
                THEN /\ armed' = armed /\ next_duetime' = next_duetime
                     /\ destroyed => hook_calls' = CountHook
                ELSE /\ next_duetime' = now + adjust_timeout_ms(timeout_ms)
                     /\ \A m \in reset_deferred :
                            next_duetime' = now + adjust_timeout_ms(m)
                     /\ \A r \in armed' : r.due = next_duetime'
                     /\ running']_vars

\* C15 witness: a period different from the one given to init() is waiting, with
\* nothing armed, for the callback that is inside run().
DeferredResetWitness ==
    /\ reset_deferred # {}
    /\ reset_deferred \cap init_ms = {}
    /\ invoking /\ NumInRun = 1
    /\ armed = {}
\* C16: whenever _invoking is true _running is true as well; in particular no
\* stop(), reset(), destroy() or reconciliation made while run() executes leaves
\* _running false.
InvokingImpliesRunning ==
    invoking => running

\* C16 witness: run() is executing while stop() and destroy() have both been called
\* and have released the lock.
InvokingImpliesRunningWitness ==
    /\ invoking /\ running
    /\ stopped /\ destroyed
    /\ NumInRun = 1 /\ mutex = NoThread

\* C18: no CHECK of the class fails: CHECK(_running) in stop(), reset(),
\* reset(int), destroy() and on_timedout(), CHECK(_stopped) in destroy().
NoCheckFails ==
    ~check_failed

\* C18 witness: the callback has passed its CHECK(_running) after public operations
\* were called from inside run(), and destroy() has passed its CHECK(_stopped) and
\* run the hook.
NoCheckFailsWitness ==
    /\ ~check_failed
    /\ reent = "reconciled"
    /\ destroyed /\ stopped /\ ~running
    /\ hook_calls = 1
\* C19: from the moment on_destroy() has been invoked no registration is armed, no
\* fire is waiting to be dispatched or to start run(), and run() is not executing,
\* whatever is called on the task afterwards; so a run() that starts on a destroyed
\* task starts before the hook.
NothingAfterHook ==
    hook_calls >= 1 =>
        /\ armed = {}
        /\ \A t \in Threads : ~HasFrame(t, "otv") /\ ~HasFrame(t, "ot")
        /\ NumInRun = 0
        /\ destroyed /\ stopped

\* C19 witness: destroy() has returned without cancelling (every caller is back,
\* the hook has not run) and the callback is about to call run().
NothingAfterHookWitness ==
    /\ destroyed /\ hook_calls = 0
    /\ \A c \in Callers : stack[c] = <<>>
    /\ \E w \in Workers : stack[w] = <<"ot">>
    /\ mutex = NoThread /\ ~invoking
\* C17 as stated: besides the period, describe() writes exactly one of the labels
\* DESTROYED, STOPPED, INVOKING, SCHEDULING(in N ms), in every reachable state.
DescribeOneLabel ==
    \A o \in os : o.timeout = timeout_ms /\ Len(o.labels) = 1

\* C17 amended: describe() writes the period and then one label for each flag that
\* is set: DESTROYED exactly when _destroyed, STOPPED exactly when _stopped, and
\* exactly when _running one of INVOKING (when _invoking) and SCHEDULING(in N ms);
\* at least one label is written, none twice, and DESTROYED comes with STOPPED.
DescribeLabelsFlags ==
    \A o \in os :
        LET has(l) == \E k \in 1..Len(o.labels) : o.labels[k] = l IN
        /\ o.timeout = timeout_ms
        /\ has("DESTROYED") <=> destroyed
        /\ has("STOPPED") <=> stopped
        /\ has("INVOKING") <=> (running /\ invoking)
        /\ has("SCHEDULING") <=> (running /\ ~invoking)
        /\ has("SCHEDULING") <=> o.in_ms # {}
        /\ \A n \in o.in_ms : n <= next_duetime - now
        /\ Len(o.labels) >= 1
        /\ \A j, k \in 1..Len(o.labels) : o.labels[j] = o.labels[k] => j = k
        /\ has("DESTROYED") => has("STOPPED")

\* C17 witness: describe() called on a destroyed task whose callback is still
\* inside run(): three labels are written.
DescribeLabelsFlagsWitness ==
    \E o \in os :
        /\ o.labels = <<"DESTROYED", "STOPPED", "INVOKING">>
        /\ NumInRun = 1
\* C20: a start() whose registration failed, and which therefore runs the callback
\* on its own thread, eventually returns to its caller.
StartReturns ==
    \A c \in Callers :
        (synth_start = c /\ Top(c) = "otv") ~> (stack[c] = <<>>)
====
